---- MODULE Spec2Model ----
(***************************************************************************)
(* A model of test-script.py: the unittest class TestGISAssignment that    *)
(* grades student_submission.ipynb.  setUpClass loads the notebook, runs   *)
(* it through ExecutePreprocessor with stdout redirected, re-executes the  *)
(* code cells with exec() into cls.globals, and the six test methods then  *)
(* run in name order against the class attributes.                         *)
(***************************************************************************)
EXTENDS Integers, Sequences, FiniteSets, TLC

\* Longest notebook (number of cells) the model feeds to the harness.
MaxCells == 2

(***************************************************************************)
(* Cell sources.  A source is a sequence of lines, a line a sequence of    *)
(* tokens (whitespace separates tokens, punctuation is a token of its      *)
(* own).  defs are the top-level names the source binds when it runs.      *)
(***************************************************************************)
Punctuation == {".", ",", "(", ")", "=", "*"}

LineGpd == <<"import", "geopandas", "as", "gpd">>
LinePd == <<"import", "pandas", "as", "pd">>
LineNp == <<"import", "numpy", "as", "np">>
LinePdNp == <<"import", "pandas", ",", "numpy">>
LinePlt == <<"import", "matplotlib", ".", "pyplot", "as", "plt">>
LineSns == <<"from", "seaborn", "import", "heatmap">>
LineFolium == <<"import", "folium">>
LineCtx == <<"import", "contextily", "as", "ctx">>
LineRelative == <<"from", ".", "import", "helpers">>
LineLoad == <<"tz_shapefile", "=", "gpd", ".", "read_file", "(", "path", ")">>
LineProject == <<"tz_projected", "=", "gdf", ".", "to_crs", "(", "epsg", ")">>
LineDefs == <<"def", "describe_geodataframe", "(", "gdf", ")">>

SrcImportsAll ==
    [lines |-> <<LineGpd, LinePd, LineNp, LinePlt, LineSns, LineFolium, LineCtx>>,
     defs |-> {}]
SrcImportsMulti ==
    [lines |-> <<LineGpd, LinePdNp, LinePlt, LineSns, LineFolium, LineCtx>>,
     defs |-> {}]
SrcImportsFirst ==
    [lines |-> <<LineRelative, LineGpd, LinePd, LineNp, LinePlt>>, defs |-> {}]
SrcImportsRest ==
    [lines |-> <<LineSns, LineFolium, LineCtx>>, defs |-> {}]
SrcLoad == [lines |-> <<LineLoad>>, defs |-> {"tz_shapefile"}]
SrcProject == [lines |-> <<LineProject>>, defs |-> {"tz_projected"}]
SrcFunctions ==
    [lines |-> <<LineDefs>>, defs |-> {"describe_geodataframe", "compare_projections"}]
SrcSolution ==
    [lines |-> <<LineGpd, LinePd, LineNp, LinePlt, LineSns, LineFolium, LineCtx,
                 LineLoad, LineDefs, LineProject>>,
     defs |-> {"tz_shapefile", "tz_projected", "describe_geodataframe",
               "compare_projections"}]

CodeSources ==
    {SrcImportsAll, SrcImportsMulti, SrcImportsFirst, SrcImportsRest, SrcLoad,
     SrcProject, SrcFunctions, SrcSolution}

\* A notebook cell: nbformat's cell_type and source.
Cells ==
    [cell_type : {"code"}, source : CodeSources]
        \cup [cell_type : {"markdown"}, source : {SrcImportsAll}]

RECURSIVE SeqsUpTo(_, _)
SeqsUpTo(S, n) ==
    IF n = 0 THEN {<<>>}
    ELSE LET shorter == SeqsUpTo(S, n - 1)
         IN shorter \cup {Append(s, x) : s \in {t \in shorter : Len(t) = n - 1}, x \in S}

Notebooks == SeqsUpTo(Cells, MaxCells)

(***************************************************************************)
(* Runtime values a submission can bind.  crs "NoAttr" is an object with   *)
(* no crs attribute, "None" a GeoDataFrame whose crs is None.              *)
(***************************************************************************)
GeoGDF == [type |-> "GeoDataFrame", crs |-> "EPSG:4326", len |-> 1, columns |-> {"name", "geometry"}]
ProjGDF == [type |-> "GeoDataFrame", crs |-> "EPSG:21037", len |-> 1, columns |-> {"name", "geometry"}]
OtherGeoGDF == [type |-> "GeoDataFrame", crs |-> "EPSG:4269", len |-> 1, columns |-> {"name", "geom"}]
EmptyGDF == [type |-> "GeoDataFrame", crs |-> "None", len |-> 0, columns |-> {"geometry"}]
PlainDF == [type |-> "DataFrame", crs |-> "NoAttr", len |-> 1, columns |-> {"name"}]
Function == [type |-> "function", crs |-> "NoAttr", len |-> 0, columns |-> {}]

Objects == {GeoGDF, ProjGDF, OtherGeoGDF, EmptyGDF, PlainDF}

Candidates(name) ==
    IF name \in {"describe_geodataframe", "compare_projections"} THEN {Function}
    ELSE Objects

\* pyproj's CRS.is_projected for the reference systems of the model.
is_projected(crs) == crs \in {"EPSG:21037", "EPSG:3857"}

EmptyDict == [n \in {} |-> Function]

\* dict update: the bindings of new replace those of old.
Update(old, new) == new @@ old

(***************************************************************************)
(* State.  attrs is the set of class attributes that exist on              *)
(* TestGISAssignment; an attribute's variable is meaningful only while its *)
(* name is in attrs (reading a missing one is an AttributeError).          *)
(***************************************************************************)
VARIABLES
    file,                  \* student_submission.ipynb: "absent", "valid", "malformed"
    cells,                 \* the cells of the notebook file
    pc,                    \* position in setUpClass and in the test run
    attrs,                 \* names of the class attributes that are set
    notebook,              \* cls.notebook: "doc" (the parsed cells) or "None"
    code_cells,            \* cls.code_cells: indices of the code cells
    execution_successful,  \* cls.execution_successful
    execution_error,       \* cls.execution_error
    execution_output,      \* cls.execution_output
    globals,               \* cls.globals: name -> value
    stdout,                \* sys.stdout: "original" or "StringIO"
    buffer,                \* text written to the StringIO
    console,               \* text written to the original stdout
    idx,                   \* position of the extraction loop in notebook.cells
    assigned,              \* how often execution_successful has been assigned
    result,                \* what describe_geodataframe returned in test_03
    outcome                \* per test: "notrun", "pass", "fail", "error"

vars ==
    <<file, cells, pc, attrs, notebook, code_cells, execution_successful,
      execution_error, execution_output, globals, stdout, buffer, console, idx,
      assigned, result, outcome>>

Tests == 0 .. 5

TestPc(t) == <<"test", t>>

NoCall == [called |-> FALSE, raises |-> FALSE, isDict |-> FALSE, keys |-> {},
           num_features |-> 0, crs |-> "None"]

Init ==
    /\ file \in {"absent", "valid", "malformed"}
    /\ cells \in (IF file = "valid" THEN Notebooks ELSE {<<>>})
    /\ pc = <<"open", 0>>
    /\ attrs = {}
    /\ notebook = "None"
    /\ code_cells = {}
    /\ execution_successful = FALSE
    /\ execution_error = ""
    /\ execution_output = <<>>
    /\ globals = EmptyDict
    /\ stdout = "original"
    /\ buffer = <<>>
    /\ console = <<>>
    /\ idx = 0
    /\ assigned = 0
    /\ result = NoCall
    /\ outcome = [t \in Tests |-> "notrun"]

\* print(): the text goes to whatever sys.stdout currently is.
print(msg) ==
    IF stdout = "original"
    THEN console' = Append(console, msg) /\ UNCHANGED buffer
    ELSE buffer' = Append(buffer, msg) /\ UNCHANGED console

\* except FileNotFoundError: the handler around the whole body of setUpClass.
FileNotFoundHandler ==
    /\ print("Student submission notebook not found.")
    /\ notebook' = "None"
    /\ execution_successful' = FALSE
    /\ assigned' = assigned + 1
    /\ attrs' = attrs \cup {"notebook", "execution_successful"}
    /\ pc' = TestPc(0)

\* open() and nbformat.read() succeed; code_cells is collected.
Load ==
    /\ pc = <<"open", 0>>
    /\ file = "valid"
    /\ notebook' = "doc"
    /\ code_cells' = {i \in 1 .. Len(cells) : cells[i].cell_type = "code"}
    /\ attrs' = attrs \cup {"notebook", "code_cells"}
    /\ pc' = <<"redirect", 0>>
    /\ UNCHANGED <<file, cells, execution_successful, execution_error,
                   execution_output, globals, stdout, buffer, console, idx,
                   assigned, result, outcome>>

\* open() raises FileNotFoundError.
LoadMissing ==
    /\ pc = <<"open", 0>>
    /\ file = "absent"
    /\ FileNotFoundHandler
    /\ UNCHANGED <<file, cells, code_cells, execution_error, execution_output,
                   globals, stdout, idx, result, outcome>>

\* nbformat.read() raises on a file that is no notebook: nothing catches it.
LoadMalformed ==
    /\ pc = <<"open", 0>>
    /\ file = "malformed"
    /\ pc' = <<"setup_error", 0>>
    /\ UNCHANGED <<file, cells, attrs, notebook, code_cells, execution_successful,
                   execution_error, execution_output, globals, stdout, buffer,
                   console, idx, assigned, result, outcome>>

\* The executor is built and sys.stdout replaced by a StringIO.
Redirect ==
    /\ pc = <<"redirect", 0>>
    /\ stdout' = "StringIO"
    /\ buffer' = <<>>
    /\ pc' = <<"preprocess", 0>>
    /\ UNCHANGED <<file, cells, attrs, notebook, code_cells, execution_successful,
                   execution_error, execution_output, globals, console, idx,
                   assigned, result, outcome>>

\* str(e) of what executor.preprocess raises: a cell's error, a cell's timeout.
ExecutorErrors == {"CellExecutionError", "TimeoutError"}

\* executor.preprocess returns.
PreprocessOk ==
    /\ pc = <<"preprocess", 0>>
    /\ \E text \in {<<>>, <<"kernel log">>} : buffer' = buffer \o text
    /\ execution_successful' = TRUE
    /\ assigned' = assigned + 1
    /\ attrs' = attrs \cup {"execution_successful"}
    /\ pc' = <<"finally", 0>>
    /\ UNCHANGED <<file, cells, notebook, code_cells, execution_error,
                   execution_output, globals, stdout, console, idx, result, outcome>>

\* executor.preprocess raises (a cell error, or the timeout of a cell).
PreprocessRaises ==
    /\ pc = <<"preprocess", 0>>
    /\ \E e \in ExecutorErrors : execution_error' = e
    /\ \E text \in {<<>>, <<"kernel log">>} : buffer' = buffer \o text
    /\ execution_successful' = FALSE
    /\ assigned' = assigned + 1
    /\ attrs' = attrs \cup {"execution_successful", "execution_error"}
    /\ pc' = <<"finally", 0>>
    /\ UNCHANGED <<file, cells, notebook, code_cells, execution_output, globals,
                   stdout, console, idx, result, outcome>>

Finally_NoRestore ==
    /\ pc = <<"finally", 0>>
    /\ execution_output' = buffer
    /\ attrs' = attrs \cup {"execution_output"}
    /\ pc' = <<"extract", 0>>
    /\ UNCHANGED <<file, cells, notebook, code_cells, execution_successful,
                   execution_error, globals, stdout, buffer, console, idx, assigned,
                   result, outcome>>

\* finally: the captured text is stored and sys.stdout restored.
Finally ==
    /\ pc = <<"finally", 0>>
    /\ execution_output' = buffer
    /\ stdout' = "original"
    /\ attrs' = attrs \cup {"execution_output"}
    /\ pc' = <<"extract", 0>>
    /\ UNCHANGED <<file, cells, notebook, code_cells, execution_successful,
                   execution_error, globals, buffer, console, idx, assigned,
                   result, outcome>>

\* cls.globals = {} and the loop over notebook.cells starts.
ExtractBegin ==
    /\ pc = <<"extract", 0>>
    /\ globals' = EmptyDict
    /\ attrs' = attrs \cup {"globals"}
    /\ idx' = 1
    /\ pc' = <<"exec", 0>>
    /\ UNCHANGED <<file, cells, notebook, code_cells, execution_successful,
                   execution_error, execution_output, stdout, buffer, console,
                   assigned, result, outcome>>

\* The loop stands at a code cell.  What exec() of a cell does depends on the
\* whole of its code and on the machine (files, installed modules): any code cell
\* can return, raise, or not return.
AtCodeCell ==
    /\ pc = <<"exec", 0>>
    /\ idx <= Len(cells)
    /\ cells[idx].cell_type = "code"

\* A cell that is no code cell is skipped.
ExecSkip ==
    /\ pc = <<"exec", 0>>
    /\ idx <= Len(cells)
    /\ cells[idx].cell_type # "code"
    /\ idx' = idx + 1
    /\ UNCHANGED <<file, cells, pc, attrs, notebook, code_cells,
                   execution_successful, execution_error, execution_output,
                   globals, stdout, buffer, console, assigned, result, outcome>>

\* exec(cell.source, cls.globals) returns: the names the source defines are bound.
ExecOk ==
    /\ AtCodeCell
    /\ \E new \in [cells[idx].source.defs -> Objects \cup {Function}] :
        /\ \A n \in DOMAIN new : new[n] \in Candidates(n)
        /\ globals' = Update(globals, new)
    /\ idx' = idx + 1
    /\ UNCHANGED <<file, cells, pc, attrs, notebook, code_cells,
                   execution_successful, execution_error, execution_output, stdout,
                   buffer, console, assigned, result, outcome>>

\* exec() raises FileNotFoundError (student code opens a file that is not there):
\* the handler around the body of setUpClass catches it.
ExecFileNotFound ==
    /\ AtCodeCell
    /\ FileNotFoundHandler
    /\ UNCHANGED <<file, cells, code_cells, execution_error, execution_output,
                   globals, stdout, idx, result, outcome>>

\* exec() raises any other exception: it leaves setUpClass, and unittest runs
\* no test of the class.
ExecRaises ==
    /\ AtCodeCell
    /\ pc' = <<"setup_error", 0>>
    /\ UNCHANGED <<file, cells, attrs, notebook, code_cells, execution_successful,
                   execution_error, execution_output, globals, stdout, buffer,
                   console, idx, assigned, result, outcome>>

\* exec() never returns: no timeout bounds the in-process run of a cell.
ExecHangs ==
    /\ AtCodeCell
    /\ pc' = <<"hung", 0>>
    /\ UNCHANGED <<file, cells, attrs, notebook, code_cells, execution_successful,
                   execution_error, execution_output, globals, stdout, buffer,
                   console, idx, assigned, result, outcome>>

\* The loop is over: setUpClass returns and the tests run in name order.
ExtractEnd ==
    /\ pc = <<"exec", 0>>
    /\ idx > Len(cells)
    /\ pc' = TestPc(0)
    /\ UNCHANGED <<file, cells, attrs, notebook, code_cells, execution_successful,
                   execution_error, execution_output, globals, stdout, buffer,
                   console, idx, assigned, result, outcome>>

(***************************************************************************)
(* The test methods.  An AssertionError is a failure of the test, any      *)
(* other exception an error.                                               *)
(***************************************************************************)
required_libraries ==
    <<"geopandas", "pandas", "numpy", "matplotlib", "seaborn", "folium", "contextily">>

required_keys == <<"crs", "geometry_type", "num_features", "attributes", "bounds">>

Range(s) == {s[i] : i \in DOMAIN s}

\* The pattern ^\s*import\s+(\w+)|^\s*from\s+(\w+) on one line: the word that
\* follows a leading "import" or "from", if a word follows.
LineMatch(line) ==
    IF Len(line) >= 2 /\ line[1] \in {"import", "from"} /\ line[2] \notin Punctuation
    THEN <<line[2]>>
    ELSE <<>>

\* re.findall(pattern, source, re.MULTILINE), the empty groups dropped.
RECURSIVE findall(_)
findall(lines) ==
    IF lines = <<>> THEN <<>>
    ELSE LineMatch(Head(lines)) \o findall(Tail(lines))

\* import_statements: the matches of the code cells, in order.
RECURSIVE import_statements(_)
import_statements(cs) ==
    IF cs = <<>> THEN <<>>
    ELSE (IF Head(cs).cell_type = "code" THEN findall(Head(cs).source.lines) ELSE <<>>)
             \o import_statements(Tail(cs))

\* test_00_notebook_execution
Test00Outcome(at, ok) ==
    IF "execution_successful" \notin at THEN "error"
    ELSE IF ok THEN "pass" ELSE "fail"

\* test_01_required_libraries
Test01Outcome(at, nb, cs) ==
    IF "notebook" \notin at \/ nb = "None" THEN "error"
    ELSE IF \A i \in DOMAIN required_libraries :
                required_libraries[i] \in Range(import_statements(cs))
         THEN "pass"
         ELSE "fail"

\* test_02_load_shapefile
Test02Outcome(at, g) ==
    IF "globals" \notin at THEN "error"
    ELSE IF "tz_shapefile" \notin DOMAIN g THEN "fail"
    ELSE IF g["tz_shapefile"].type # "GeoDataFrame" THEN "fail"
    ELSE IF ~(g["tz_shapefile"].len > 0) THEN "fail"
    ELSE IF "geometry" \notin g["tz_shapefile"].columns THEN "fail"
    ELSE "pass"

\* The table test_03 builds: two points, crs="EPSG:4326".
test_gdf == [type |-> "GeoDataFrame", crs |-> "EPSG:4326", len |-> 2, columns |-> {"col1", "geometry"}]

\* What describe_geodataframe(test_gdf) can do: raise, or return a value.
GoodResult ==
    [called |-> TRUE, raises |-> FALSE, isDict |-> TRUE, keys |-> Range(required_keys),
     num_features |-> 2, crs |-> "EPSG:4326"]

CallResults ==
    {GoodResult,
     [GoodResult EXCEPT !.raises = TRUE],
     [GoodResult EXCEPT !.isDict = FALSE],
     [GoodResult EXCEPT !.keys = @ \cup {"area"}],
     [GoodResult EXCEPT !.keys = @ \ {"bounds"}],
     [GoodResult EXCEPT !.keys = @ \ {"crs"}],
     [GoodResult EXCEPT !.num_features = 3],
     [GoodResult EXCEPT !.crs = "EPSG:3857"],
     [GoodResult EXCEPT !.crs = "None"]}

Test03Outcome_NoCrs(at, g, r) ==
    IF "globals" \notin at THEN "error"
    ELSE IF "describe_geodataframe" \notin DOMAIN g THEN "fail"
    ELSE IF g["describe_geodataframe"].type # "function" \/ r.raises THEN "error"
    ELSE IF ~r.isDict THEN "fail"
    ELSE IF \E i \in DOMAIN required_keys : required_keys[i] \notin r.keys THEN "fail"
    ELSE IF r.num_features # 2 THEN "fail"
    ELSE "pass"

\* test_03_describe_geodataframe, r being what the call did.
Test03Outcome(at, g, r) ==
    IF "globals" \notin at THEN "error"
    ELSE IF "describe_geodataframe" \notin DOMAIN g THEN "fail"
    ELSE IF g["describe_geodataframe"].type # "function" \/ r.raises THEN "error"
    ELSE IF ~r.isDict THEN "fail"
    ELSE IF \E i \in DOMAIN required_keys : required_keys[i] \notin r.keys THEN "fail"
    ELSE IF r.num_features # 2 THEN "fail"
    ELSE IF r.crs # test_gdf.crs THEN "fail"
    ELSE "pass"

Test04Outcome_NoProjected(at, g) ==
    IF "globals" \notin at THEN "error"
    ELSE IF "tz_projected" \notin DOMAIN g THEN "fail"
    ELSE IF "tz_shapefile" \notin DOMAIN g THEN "error"
    ELSE IF g["tz_projected"].type # "GeoDataFrame" THEN "fail"
    ELSE IF g["tz_shapefile"].crs = "NoAttr" THEN "error"
    ELSE IF ~(g["tz_shapefile"].crs # g["tz_projected"].crs) THEN "fail"
    ELSE "pass"

\* test_04_reproject_data
Test04Outcome(at, g) ==
    IF "globals" \notin at THEN "error"                          \* AttributeError
    ELSE IF "tz_projected" \notin DOMAIN g THEN "fail"
    ELSE IF "tz_shapefile" \notin DOMAIN g THEN "error"          \* KeyError
    ELSE IF g["tz_projected"].type # "GeoDataFrame" THEN "fail"
    ELSE IF g["tz_shapefile"].crs = "NoAttr" THEN "error"        \* AttributeError
    ELSE IF ~(g["tz_shapefile"].crs # g["tz_projected"].crs) THEN "fail"
    ELSE IF g["tz_projected"].crs = "None" THEN "error"          \* None.is_projected
    ELSE IF ~is_projected(g["tz_projected"].crs) THEN "fail"
    ELSE "pass"

\* test_05_compare_projections: the lookup of the function; what follows it (the
\* fixture, the call and the assertions on its result) can pass, fail or raise.
Test05Outcomes(at, g) ==
    IF "globals" \notin at THEN {"error"}
    ELSE IF "compare_projections" \notin DOMAIN g THEN {"fail"}
    ELSE {"pass", "fail", "error"}

Test00 ==
    /\ pc = TestPc(0)
    /\ outcome' = [outcome EXCEPT ![0] = Test00Outcome(attrs, execution_successful)]
    /\ pc' = TestPc(1)
    /\ UNCHANGED <<file, cells, attrs, notebook, code_cells, execution_successful,
                   execution_error, execution_output, globals, stdout, buffer,
                   console, idx, assigned, result>>

Test01 ==
    /\ pc = TestPc(1)
    /\ outcome' = [outcome EXCEPT ![1] = Test01Outcome(attrs, notebook, cells)]
    /\ pc' = TestPc(2)
    /\ UNCHANGED <<file, cells, attrs, notebook, code_cells, execution_successful,
                   execution_error, execution_output, globals, stdout, buffer,
                   console, idx, assigned, result>>

Test02 ==
    /\ pc = TestPc(2)
    /\ outcome' = [outcome EXCEPT ![2] = Test02Outcome(attrs, globals)]
    /\ pc' = TestPc(3)
    /\ UNCHANGED <<file, cells, attrs, notebook, code_cells, execution_successful,
                   execution_error, execution_output, globals, stdout, buffer,
                   console, idx, assigned, result>>

\* The call is made only when the lookup of the function succeeded.
Test03 ==
    /\ pc = TestPc(3)
    /\ \E r \in (IF "globals" \in attrs /\ "describe_geodataframe" \in DOMAIN globals
                 THEN CallResults ELSE {NoCall}) :
        /\ result' = r
        /\ outcome' = [outcome EXCEPT ![3] = Test03Outcome(attrs, globals, r)]
    /\ pc' = TestPc(4)
    /\ UNCHANGED <<file, cells, attrs, notebook, code_cells, execution_successful,
                   execution_error, execution_output, globals, stdout, buffer,
                   console, idx, assigned>>

Test04 ==
    /\ pc = TestPc(4)
    /\ outcome' = [outcome EXCEPT ![4] = Test04Outcome(attrs, globals)]
    /\ pc' = TestPc(5)
    /\ UNCHANGED <<file, cells, attrs, notebook, code_cells, execution_successful,
                   execution_error, execution_output, globals, stdout, buffer,
                   console, idx, assigned, result>>

Test05 ==
    /\ pc = TestPc(5)
    /\ \E o \in Test05Outcomes(attrs, globals) : outcome' = [outcome EXCEPT ![5] = o]
    /\ pc' = <<"done", 0>>
    /\ UNCHANGED <<file, cells, attrs, notebook, code_cells, execution_successful,
                   execution_error, execution_output, globals, stdout, buffer,
                   console, idx, assigned, result>>

Next ==
    \/ Load
    \/ LoadMissing
    \/ LoadMalformed
    \/ Redirect
    \/ PreprocessOk
    \/ PreprocessRaises
    \/ Finally
    \/ ExtractBegin
    \/ ExecSkip
    \/ ExecOk
    \/ ExecFileNotFound
    \/ ExecRaises
    \/ ExecHangs
    \/ ExtractEnd
    \/ Test00
    \/ Test01
    \/ Test02
    \/ Test03
    \/ Test04
    \/ Test05

Spec == Init /\ [][Next]_vars

(***************************************************************************)
(* The claims.                                                             *)
(***************************************************************************)
SetupError == pc = <<"setup_error", 0>>
Done == pc = <<"done", 0>>
SetupReturned == pc[1] \in {"test", "done"}
SetupExited == SetupReturned \/ SetupError
NotFoundMessage == "Student submission notebook not found."

\* C1: with student_submission.ipynb absent, setUpClass does not raise and every
\* check test_00 .. test_05 ends in an assertion failure, none in an uncaught
\* exception.
C1_MissingFileEveryCheckFails ==
    file = "absent" =>
        /\ ~SetupError
        /\ \A t \in Tests : outcome[t] \in {"notrun", "fail"}
        /\ Done => \A t \in Tests : outcome[t] = "fail"

\* C2: when the executor raises, the error is kept as message text, setUpClass
\* does not propagate an exception, and test_00 runs and fails whatever the
\* namespace-extraction pass does.
C2_ExecutorFailureIsOneFailingCheck ==
    ("execution_error" \in attrs /\ (Done \/ SetupError)) =>
        /\ execution_error \in ExecutorErrors
        /\ ~SetupError
        /\ outcome[0] = "fail"

\* C3: setUpClass never hangs: until it has returned or raised, it has a step to
\* take (every step that runs student code is cut off by a timeout).
C3_SetupNeverHangs == SetupExited \/ ENABLED Next

\* The names of the globals mapping a content check reads.
NamesRead(t) ==
    CASE t = 2 -> {"tz_shapefile"}
      [] t = 3 -> {"describe_geodataframe"}
      [] t = 4 -> {"tz_projected", "tz_shapefile"}
      [] t = 5 -> {"compare_projections"}

\* C4: a content check (test_02 .. test_05) that reads a name absent from the
\* globals mapping ends in an assertion failure, not in an uncaught exception.
C4_AbsentNameIsAssertionFailure ==
    \A t \in 2 .. 5 :
        ("globals" \in attrs /\ outcome[t] # "notrun"
            /\ \E n \in NamesRead(t) : n \notin DOMAIN globals)
        => outcome[t] = "fail"

\* The top-level modules a line imports, by Python's grammar: every module of an
\* import statement, the package of a from-import.
ImportedModules(line) ==
    IF Len(line) >= 2 /\ line[1] = "import"
    THEN {line[j] : j \in {k \in 2 .. Len(line) :
                              line[k] \notin Punctuation /\ (k = 2 \/ line[k - 1] = ",")}}
    ELSE IF Len(line) >= 2 /\ line[1] = "from" /\ line[2] \notin Punctuation
    THEN {line[2]}
    ELSE {}

ImportedByCodeCells ==
    UNION {UNION {ImportedModules(l) : l \in Range(cells[i].source.lines)} :
              i \in {k \in DOMAIN cells : cells[k].cell_type = "code"}}

\* C5: test_01 passes if and only if each of the seven required modules is the
\* top-level module of an import or from-import statement of some code cell,
\* whatever the import syntax (dotted, aliased, several modules in one statement).
C5_ImportCheckIffAllImported ==
    (outcome[1] # "notrun" /\ "notebook" \in attrs /\ notebook = "doc") =>
        (outcome[1] = "pass" <=> Range(required_libraries) \subseteq ImportedByCodeCells)

Returned(r) == r.called /\ ~r.raises

\* C6 as stated: test_03 passes only when the call returns a mapping with exactly
\* the keys crs, geometry_type, num_features, attributes, bounds, num_features 2
\* and the crs of the input; a missing key, an extra key, a wrong count or a wrong
\* crs makes it fail.
C6_ExactKeys ==
    /\ outcome[3] = "pass" =>
        /\ Returned(result) /\ result.isDict
        /\ result.keys = Range(required_keys)
        /\ result.num_features = 2
        /\ result.crs = test_gdf.crs
    /\ (Returned(result) /\ result.isDict /\ result.keys # Range(required_keys))
        => outcome[3] = "fail"

\* C6 as amended: test_03 passes only when the call returns a mapping that
\* contains the keys crs, geometry_type, num_features, attributes, bounds, with
\* num_features 2 and the crs of the input; a missing key, a wrong count or a
\* wrong crs makes it fail, and further keys do not.
C6_RequiredKeys ==
    /\ outcome[3] = "pass" =>
        /\ Returned(result) /\ result.isDict
        /\ Range(required_keys) \subseteq result.keys
        /\ result.num_features = 2
        /\ result.crs = test_gdf.crs
    /\ (Returned(result) /\ result.isDict
            /\ (~(Range(required_keys) \subseteq result.keys)
                  \/ result.num_features # 2 \/ result.crs # test_gdf.crs))
        => outcome[3] = "fail"
    /\ (Returned(result) /\ result.isDict
            /\ Range(required_keys) \subseteq result.keys
            /\ result.num_features = 2 /\ result.crs = test_gdf.crs)
        => outcome[3] = "pass"

C6_Witness ==
    /\ outcome[3] = "pass"
    /\ Returned(result)
    /\ result.keys # Range(required_keys)

\* The conditions of C7 on the globals mapping.
ValidReprojection ==
    /\ "globals" \in attrs
    /\ "tz_projected" \in DOMAIN globals
    /\ globals["tz_projected"].type = "GeoDataFrame"
    /\ "tz_shapefile" \in DOMAIN globals
    /\ globals["tz_shapefile"].crs # "NoAttr"
    /\ globals["tz_projected"].crs # globals["tz_shapefile"].crs
    /\ is_projected(globals["tz_projected"].crs)

\* C7: test_04 passes if and only if tz_projected is in the globals mapping, is a
\* GeoDataFrame, its crs differs from the crs tz_shapefile has, and its crs is a
\* projected one.
C7_ReprojectCheck ==
    outcome[4] # "notrun" => (outcome[4] = "pass" <=> ValidReprojection)

C7_Witness ==
    /\ outcome[4] = "pass"
    /\ globals["tz_projected"].crs = "EPSG:21037"
    /\ globals["tz_shapefile"].crs = "EPSG:4326"

\* C8: execution_successful is assigned exactly once on every path through
\* setUpClass, and nothing assigns it again.
C8_AssignedOnce ==
    /\ assigned <= 1
    /\ SetupReturned => assigned = 1

\* C9: on every path out of setUpClass sys.stdout is the original stream again,
\* and once the executor pass was started the captured text is in
\* execution_output.
C9_StdoutRestored ==
    SetupExited =>
        /\ stdout = "original"
        /\ "code_cells" \in attrs =>
            /\ "execution_output" \in attrs
            /\ execution_output = buffer

C9_Witness ==
    /\ SetupError
    /\ "execution_error" \in attrs
    /\ stdout = "original"
    /\ execution_output = <<"kernel log">>

\* C10: the "submission missing" state (notebook None, execution unsuccessful,
\* the message printed) is entered only when the notebook file is absent.
C10_DegradedOnlyWhenFileAbsent ==
    (/\ "notebook" \in attrs
     /\ notebook = "None"
     /\ ~execution_successful
     /\ NotFoundMessage \in Range(console))
    => file = "absent"

====
